---- MODULE Spec2Model ----
(***************************************************************************)
(* Model of the srs scraper harness: record normalisation, expansion and   *)
(* merge (harness.add_record, norm.merge, norm.clean_string), and the      *)
(* batch runner with its storage (harness.run_scrapers,                    *)
(* harness.save_records_from_scraper, harness.delete_records_from_scraper).*)
(*                                                                         *)
(* Text is a sequence of one-code-point tokens, so that slicing, searching *)
(* and cleaning are computed.  A Python value is a tagged record: Str, Num,*)
(* Dict or List; a Python dict is a function from field names to values.   *)
(***************************************************************************)
EXTENDS Integers, Sequences, FiniteSets, TLC

----------------------------------------------------------------------------
(* Values *)

Str(s) == [k |-> "str", s |-> s]
Num(n) == [k |-> "num", n |-> n]
Dict(d) == [k |-> "dict", d |-> d]
List(l) == [k |-> "list", l |-> l]

EmptyStr == Str(<<>>)
EmptyDict == <<>>

IsStr(v) == v.k = "str"
IsDict(v) == v.k = "dict"

\* Python truth value of a value (bool(v))
Truthy(v) ==
    CASE v.k = "str" -> v.s # <<>>
      [] v.k = "num" -> v.n # 0
      [] v.k = "dict" -> DOMAIN v.d # {}
      [] v.k = "list" -> v.l # <<>>

\* d.get(k) is truthy: the key is there and its value is truthy
GetTruthy(d, f) == f \in DOMAIN d /\ Truthy(d[f])

\* d.get(k) in (None, '')
GetBlank(d, f) == f \notin DOMAIN d \/ d[f] = EmptyStr

\* d with d[f] = v (dict item assignment)
Put(d, f, v) == [x \in DOMAIN d \cup {f} |-> IF x = f THEN v ELSE d[x]]

\* d without f (dict.pop / del)
Drop(d, f) == [x \in DOMAIN d \ {f} |-> d[x]]

----------------------------------------------------------------------------
(* norm.py *)

REG == "(R)"
SM == "(SM)"
TM == "(TM)"
TM_SYMBOLS == <<REG, SM, TM>>

SP == " "
NBSP == "nbsp"
RSQUO == "rsquo"
APOS == "'"
\* the code points matched by \s under re.U that the model's texts use
WHITESPACE_RE == {SP, NBSP}

\* str.find(c): 0-based index of the first occurrence, -1 if none
Find(s, c) ==
    IF \E i \in 1..Len(s) : s[i] = c
    THEN (CHOOSE i \in 1..Len(s) : s[i] = c /\ \A j \in 1..(i-1) : s[j] # c) - 1
    ELSE -1

\* WHITESPACE_RE.sub(' ', s): every maximal whitespace run becomes one space
RECURSIVE SubWhitespace(_)
SubWhitespace(s) ==
    IF s = <<>> THEN <<>>
    ELSE IF Head(s) \in WHITESPACE_RE
         THEN IF Len(s) > 1 /\ s[2] \in WHITESPACE_RE
              THEN SubWhitespace(Tail(s))
              ELSE <<SP>> \o SubWhitespace(Tail(s))
         ELSE <<Head(s)>> \o SubWhitespace(Tail(s))

\* str.strip()
RECURSIVE LStrip(_)
LStrip(s) ==
    IF s # <<>> /\ Head(s) \in WHITESPACE_RE THEN LStrip(Tail(s)) ELSE s

RECURSIVE RStrip(_)
RStrip(s) ==
    IF s # <<>> /\ s[Len(s)] \in WHITESPACE_RE
    THEN RStrip(SubSeq(s, 1, Len(s) - 1)) ELSE s

Strip(s) == RStrip(LStrip(s))

\* s.replace(u'’', "'")
ReplaceApos(s) == [i \in 1..Len(s) |-> IF s[i] = RSQUO THEN APOS ELSE s[i]]

clean_string(s) == ReplaceApos(Strip(SubWhitespace(s)))

\* merge(src, dst): the value of dst afterwards
merge(src, dst) ==
    [f \in DOMAIN src \cup DOMAIN dst |->
        IF f \in DOMAIN src
           /\ (src[f] # EmptyStr \/ ~GetTruthy(dst, f))
        THEN src[f]
        ELSE dst[f]]

----------------------------------------------------------------------------
(* db.py *)

TABLE_TO_KEY_FIELDS ==
    [brand |-> <<"company", "brand">>,
     campaign |-> <<"campaign_id">>,
     category |-> <<"company", "brand", "category">>,
     claim |-> <<"campaign_id", "company", "brand", "scope", "claim">>,
     company |-> <<"company">>,
     rating |-> <<"campaign_id", "company", "brand", "scope">>,
     scraper |-> <<"scraper_id">>,
     scraper_brand_map |-> <<"scraper_id", "scraper_company", "scraper_brand">>,
     scraper_category_map |-> <<"scraper_id", "scraper_category">>,
     scraper_company_map |-> <<"scraper_id", "scraper_company">>,
     subcategory |-> <<"category", "subcategory">>,
     url |-> <<"url">>]

OBSOLETE_TABLES ==
    {"brand_category", "campaign_brand_claim", "campaign_brand_rating",
     "campaign_company_claim", "campaign_company_rating", "company_category"}

----------------------------------------------------------------------------
(* rating.py *)

DEFAULT_MIN_SCORE == 0

----------------------------------------------------------------------------
(* harness.py: add_record *)

SCRAPER_ID_KEYS == {"campaign_id", "scraper_id"}

\* EndsWithCategory comparing the whole name
EndsWithCategoryExact(table) == table = "category"

\* table.endswith('category'), over the table names add_record accepts
EndsWithCategory(table) == table \in {"category", "subcategory"}

\* k.split('_'): the tokens of the field names the model's records use
FieldTokens ==
    [company |-> <<"company">>, brand |-> <<"brand">>,
     brands |-> <<"brands">>, category |-> <<"category">>,
     categories |-> <<"categories">>, subcategory |-> <<"subcategory">>,
     parent_category |-> <<"parent", "category">>,
     scope |-> <<"scope">>, claim |-> <<"claim">>, tm |-> <<"tm">>,
     score |-> <<"score">>, min_score |-> <<"min", "score">>,
     last_scraped |-> <<"last", "scraped">>,
     url |-> <<"url">>, website_url |-> <<"website", "url">>,
     url_note |-> <<"url", "note">>]

\* IsUrlField looking at the first token of the name
IsUrlFieldFirstToken(f) == FieldTokens[f][1] = "url"

IsUrlField(f) == FieldTokens[f][Len(FieldTokens[f])] = "url"

COLON == ":"
DIGITS == {"0", "1", "2", "3", "4", "5", "6", "7", "8", "9"}
\* urlparse.scheme_chars, restricted to the code points of the model's texts
SCHEME_CHARS == {"h", "A", "B", "W", "X", "c", "d"} \cup DIGITS

\* urlparse(s).scheme is non-empty: a ':' after a non-empty run of scheme
\* characters, and what follows is not a bare port number
HasScheme(s) ==
    LET i == Find(s, COLON)
        rest == SubSeq(s, i + 2, Len(s))
    IN /\ i > 0
       /\ \A j \in 1..i : s[j] \in SCHEME_CHARS
       /\ (rest = <<>> \/ \E j \in 1..Len(rest) : rest[j] \notin DIGITS)

\* the progress of one _add call: ok = FALSE once it raised; acc is the
\* accumulator (mutated in place, so it keeps what was written before a raise)
Ok(acc, record) == [ok |-> TRUE, acc |-> acc, record |-> record]
Raise(st) == [ok |-> FALSE, acc |-> st.acc, record |-> st.record]

\* record.get('company', '') / record.get('brand', '')
GetOr(record, f) == IF f \in DOMAIN record THEN record[f] ELSE EmptyStr

\* lines 126-130: catch empty fields up front
EmptyIdentity(record) ==
    \E f \in {"company", "brand", "category"} :
        f \in DOMAIN record /\ record[f] = EmptyStr

\* StripLoop leaving the loop at the first symbol it finds
RECURSIVE StripLoopBreak(_, _)
StripLoopBreak(record, i) ==
    IF i > Len(TM_SYMBOLS) THEN record
    ELSE LET c == TM_SYMBOLS[i]
             idx == Find(record["brand"].s, c)
         IN IF idx # -1
            THEN Put(Put(record, "brand",
                         Str(SubSeq(record["brand"].s, 1, idx))),
                     "tm", Str(<<c>>))
            ELSE StripLoopBreak(record, i + 1)

\* lines 155-160: strip tm etc. off end of brand, one symbol after the other
RECURSIVE StripLoop(_, _)
StripLoop(record, i) ==
    IF i > Len(TM_SYMBOLS) THEN record
    ELSE LET c == TM_SYMBOLS[i]
             idx == Find(record["brand"].s, c)
         IN StripLoop(
                IF idx # -1
                THEN Put(Put(record, "brand",
                             Str(SubSeq(record["brand"].s, 1, idx))),
                         "tm", Str(<<c>>))
                ELSE record,
                i + 1)

\* lines 224-230: store the record under its key, or merge it into the row
StoreRow(acc, table, key, record) ==
    LET key_to_row == IF table \in DOMAIN acc THEN acc[table] ELSE EmptyDict
    IN Put(acc, table,
           IF key \in DOMAIN key_to_row
           THEN Put(key_to_row, key, merge(record, key_to_row[key]))
           ELSE Put(key_to_row, key, record))

\* lines 194-195
KeyFields(table) ==
    SelectSeq(TABLE_TO_KEY_FIELDS[table], LAMBDA f : f \notin SCRAPER_ID_KEYS)

\* CleanRecord leaving every value as it came
CleanRecordNone(record) == record

\* lines 197-202: clean strings before storing them
CleanRecord(record) ==
    [f \in DOMAIN record |->
        IF IsStr(record[f]) THEN Str(clean_string(record[f].s)) ELSE record[f]]

\* lines 204-209: verify that URLs are absolute
BadUrl(record) ==
    \E f \in DOMAIN record :
        /\ IsUrlField(f)
        /\ Truthy(record[f])
        /\ ~(IsStr(record[f]) /\ HasScheme(record[f].s))

\* MayBeEmpty letting every key field default to ''
MayBeEmptyAnyField(table, f) == TRUE

\* lines 211-218: the key fields that may default to ''
MayBeEmpty(table, f) == f = "scope" \/ (f = "brand" /\ table # "brand")

EmptyKey(table, record) ==
    \E i \in 1..Len(KeyFields(table)) :
        /\ GetBlank(record, KeyFields(table)[i])
        /\ ~MayBeEmpty(table, KeyFields(table)[i])

FillKeys(table, record) ==
    [f \in DOMAIN record
           \cup {KeyFields(table)[i] : i \in 1..Len(KeyFields(table))} |->
        IF f \in DOMAIN record /\ record[f] # EmptyStr
        THEN record[f] ELSE EmptyStr]

\* line 220-227: a dict or a list in the key tuple cannot be hashed
UnhashableKey(table, record) ==
    \E i \in 1..Len(KeyFields(table)) :
        /\ KeyFields(table)[i] \in DOMAIN record
        /\ record[KeyFields(table)[i]].k \in {"dict", "list"}

\* lines 193-230: clean up, validate and store/merge the record
Finalize(table, st) ==
    IF ~st.ok THEN st
    ELSE LET cleaned == CleanRecord(st.record)
         IN IF \/ BadUrl(cleaned)
               \/ EmptyKey(table, cleaned)
               \/ UnhashableKey(table, cleaned)
            THEN Raise([st EXCEPT !.record = cleaned])
            ELSE LET record == FillKeys(table, cleaned)
                     key == [i \in 1..Len(KeyFields(table)) |->
                                record[KeyFields(table)[i]]]
                 IN Ok(StoreRow(st.acc, table, key, record), record)

\* dict(company=company, **brand): a TypeError when brand has a company too
BrandKwargs(company, brand) ==
    IF IsDict(brand) THEN Put(brand.d, "company", company)
    ELSE ("company" :> company) @@ ("brand" :> brand)

RECURSIVE _add(_, _, _)
RECURSIVE AddBrands(_, _, _)
RECURSIVE AddCategories(_, _, _, _)

\* lines 132-135: allow company to be a dict with company info
NestedCompany(st) ==
    IF ~st.ok THEN st
    ELSE IF "company" \in DOMAIN st.record /\ IsDict(st.record["company"])
    THEN LET sub == _add("company", st.record["company"].d, st.acc)
         IN IF ~sub.ok \/ "company" \notin DOMAIN st.record["company"].d
            THEN Raise([st EXCEPT !.acc = sub.acc])
            ELSE Ok(sub.acc, Put(st.record, "company",
                                 st.record["company"].d["company"]))
    ELSE st

\* lines 137-141: allow brand to be a dict with brand info
NestedBrand(st) ==
    IF ~st.ok THEN st
    ELSE IF "brand" \in DOMAIN st.record /\ IsDict(st.record["brand"])
    THEN LET d == st.record["brand"].d
             sub == _add("brand", d, st.acc)
         IN IF ~sub.ok \/ "brand" \notin DOMAIN d
            THEN Raise([st EXCEPT !.acc = sub.acc])
            ELSE Ok(sub.acc, Put(Put(st.record, "company", GetOr(d, "company")),
                                 "brand", d["brand"]))
    ELSE st

\* lines 147-152: one brand record per element of the list, under
\* record['company']
AddBrands(brands, record, acc) ==
    IF brands = <<>> THEN Ok(acc, record)
    ELSE IF \/ "company" \notin DOMAIN record
            \/ (IsDict(Head(brands)) /\ "company" \in DOMAIN Head(brands).d)
    THEN Raise(Ok(acc, record))
    ELSE LET sub == _add("brand",
                         BrandKwargs(record["company"], Head(brands)), acc)
         IN IF ~sub.ok THEN Raise(Ok(sub.acc, record))
            ELSE AddBrands(Tail(brands), record, sub.acc)

\* lines 145-152: allow list of brands, which can be dicts
BrandList(st) ==
    IF ~st.ok THEN st
    ELSE IF "brands" \in DOMAIN st.record
    THEN AddBrands(st.record["brands"].l, Drop(st.record, "brands"), st.acc)
    ELSE st

\* StripTM looking for the registered sign only
StripTMRegisteredOnly(st) ==
    IF ~st.ok THEN st
    ELSE IF GetTruthy(st.record, "brand")
    THEN IF IsStr(st.record["brand"])
         THEN LET idx == Find(st.record["brand"].s, REG)
              IN IF idx # -1
                 THEN Ok(st.acc,
                         Put(Put(st.record, "brand",
                                 Str(SubSeq(st.record["brand"].s, 1, idx))),
                             "tm", Str(<<REG>>)))
                 ELSE st
         ELSE Raise(st)
    ELSE st

\* lines 154-160: strip tm etc. off end of brand
StripTM(st) ==
    IF ~st.ok THEN st
    ELSE IF GetTruthy(st.record, "brand")
    THEN IF IsStr(st.record["brand"])
         THEN Ok(st.acc, StripLoop(st.record, 1))
         ELSE Raise(st)
    ELSE st

\* lines 165-168: allow single category
SingleCategory(table, st) ==
    IF ~st.ok THEN st
    ELSE IF "category" \in DOMAIN st.record
            /\ ~(table = "category" \/ EndsWithCategory(table))
    THEN Ok(st.acc, Put(Drop(st.record, "category"), "categories",
                        List(<<st.record["category"]>>)))
    ELSE st

\* AddCategories leaving the brand out of every category record
AddCategoriesCompanyLevel(categories, company, brand, acc) ==
    IF categories = <<>> THEN Ok(acc, EmptyDict)
    ELSE LET sub == _add("category",
                         ("company" :> company)
                             @@ ("category" :> Head(categories)),
                         acc)
         IN IF ~sub.ok THEN sub
            ELSE AddCategories(Tail(categories), company, brand, sub.acc)

\* lines 173-179: one category record per element of the list
AddCategories(categories, company, brand, acc) ==
    IF categories = <<>> THEN Ok(acc, EmptyDict)
    ELSE LET sub == _add("category",
                         IF Truthy(brand)
                         THEN ("company" :> company) @@ ("brand" :> brand)
                                  @@ ("category" :> Head(categories))
                         ELSE ("company" :> company)
                                  @@ ("category" :> Head(categories)),
                         acc)
         IN IF ~sub.ok THEN sub
            ELSE AddCategories(Tail(categories), company, brand, sub.acc)

\* lines 170-179: allow list of categories (strings only)
CategoryList(st) ==
    IF ~st.ok THEN st
    ELSE IF "categories" \in DOMAIN st.record
    THEN LET record == Drop(st.record, "categories")
             sub == AddCategories(st.record["categories"].l,
                                  GetOr(record, "company"),
                                  GetOr(record, "brand"), st.acc)
         IN [ok |-> sub.ok, acc |-> sub.acc, record |-> record]
    ELSE st

\* ScoreDefault setting min_score whenever there is a score
ScoreDefaultAlways(st) ==
    IF ~st.ok THEN st
    ELSE IF "score" \in DOMAIN st.record
    THEN Ok(st.acc, Put(st.record, "min_score", Num(DEFAULT_MIN_SCORE)))
    ELSE st

\* lines 181-183: assume min_score of 0 if not specified
ScoreDefault(st) ==
    IF ~st.ok THEN st
    ELSE IF "score" \in DOMAIN st.record /\ "min_score" \notin DOMAIN st.record
    THEN Ok(st.acc, Put(st.record, "min_score", Num(DEFAULT_MIN_SCORE)))
    ELSE st

\* lines 185-187: automatic brand entries
AutoBrand(table, st) ==
    IF ~st.ok THEN st
    ELSE IF "brand" \in DOMAIN st.record /\ table # "brand"
    THEN LET sub == _add("brand",
                         ("company" :> GetOr(st.record, "company"))
                             @@ ("brand" :> st.record["brand"]),
                         st.acc)
         IN [ok |-> sub.ok, acc |-> sub.acc, record |-> st.record]
    ELSE st

\* AutoCompany skipping the records of table brand as well
AutoCompanyExceptBrand(table, st) ==
    IF ~st.ok THEN st
    ELSE IF "company" \in DOMAIN st.record
            /\ table \notin {"company", "brand"}
    THEN LET sub == _add("company", ("company" :> st.record["company"]),
                         st.acc)
         IN [ok |-> sub.ok, acc |-> sub.acc, record |-> st.record]
    ELSE st

\* lines 189-191: automatic company entries
AutoCompany(table, st) ==
    IF ~st.ok THEN st
    ELSE IF "company" \in DOMAIN st.record /\ table # "company"
    THEN LET sub == _add("company", ("company" :> st.record["company"]),
                         st.acc)
         IN [ok |-> sub.ok, acc |-> sub.acc, record |-> st.record]
    ELSE st

\* lines 123-230: recursively add a record, possibly creating other records
_add(table, record, acc) ==
    IF EmptyIdentity(record) THEN Raise(Ok(acc, record))
    ELSE Finalize(table,
           AutoCompany(table,
             AutoBrand(table,
               ScoreDefault(
                 CategoryList(
                   SingleCategory(table,
                     StripTM(
                       BrandList(
                         NestedBrand(
                           NestedCompany(Ok(acc, record)))))))))))

\* lines 113-232: the accumulator after add_record(table, record, acc), and
\* whether the call returned (ok) or raised
add_record(table, record, acc) ==
    LET st == _add(table, record, acc)
    IN [ok |-> st.ok, acc |-> st.acc]

----------------------------------------------------------------------------
(* Expansion of records into one accumulator *)

MaxAdds == 2

TxtA == <<"A">>
TxtB == <<"B">>
TxtW == <<"W">>
TxtX == <<"X">>
TxtC == <<"c">>
TxtD == <<"d">>
UrlA == <<"h", COLON, "A">>
UrlB == <<"h", COLON, "B">>

Rec1(f1, v1) == (f1 :> v1)
Rec2(f1, v1, f2, v2) == (f1 :> v1) @@ (f2 :> v2)
Rec3(f1, v1, f2, v2, f3, v3) == (f1 :> v1) @@ (f2 :> v2) @@ (f3 :> v3)
In(table, record) == [table |-> table, record |-> record]

\* the (table, record) pairs a scraper may hand to add_record
AddInputs ==
    { In("company", Rec1("company", Str(TxtA))),
      In("company", Rec2("company", Str(TxtA), "url", Str(UrlA))),
      In("company", Rec2("company", Str(TxtA), "url", Str(UrlB))),
      In("company", Rec2("company", Str(TxtA), "url", EmptyStr)),
      In("company", Rec2("company", Str(TxtA), "url", Str(TxtA))),
      In("company", Rec1("company", EmptyStr)),
      In("company", Rec2("company", Str(<<SP, "B", NBSP>>),
                         "brands", List(<<Str(<<"W", REG>>),
                                          Dict(Rec2("brand", Str(<<"X", TM>>),
                                                    "url", Str(UrlA)))>>))),
      In("company", Rec2("company", Str(TxtA), "category", Str(TxtC))),
      In("brand", Rec2("company", Str(TxtA), "brand", Str(TxtW))),
      In("brand", Rec2("company", Str(TxtA), "brand", Str(<<"W", REG>>))),
      In("brand", Rec2("company", Str(TxtA),
                       "brand", Str(<<"W", TM, "X", REG>>))),
      In("brand", Rec2("company", Str(TxtA), "brand", Str(<<"W", SP, SM>>))),
      In("brand", Rec3("company", Str(TxtA), "brand", Str(TxtW),
                       "url", Str(TxtB))),
      In("brand", Rec1("brand", Str(TxtW))),
      In("brand", Rec3("company", Str(TxtA), "brand", Str(TxtW),
                       "categories", List(<<Str(TxtC), Str(TxtD)>>))),
      In("category", Rec3("company", Str(TxtA), "brand", Str(<<"W", TM>>),
                          "category", Str(TxtC))),
      In("category", Rec2("company", Str(TxtB), "category", Str(TxtD))),
      In("rating", Rec2("company", Str(TxtA), "score", Num(5))),
      In("rating", Rec2("company", Str(TxtA), "min_score", EmptyStr)),
      In("rating", Rec3("company", Str(TxtA), "score", Num(4),
                        "min_score", Num(2))),
      In("rating", Rec2("company", Str(TxtA), "brand", Str(<<REG>>))),
      In("rating", Rec3("company", Str(TxtA),
                        "brand", Dict(Rec1("brand", Str(TxtX))),
                        "score", Num(5))),
      In("rating", Rec2("brand", Dict(Rec2("company", Str(TxtB),
                                           "brand", Str(<<"X", TM>>))),
                        "score", Num(5))),
      In("rating", Rec3("company", Dict(Rec2("company", Str(TxtA),
                                             "url", Str(UrlA))),
                        "brand", Str(TxtW), "scope", Str(TxtC))),
      In("rating", Rec3("company", Str(TxtA), "brand", Str(TxtW),
                        "categories", List(<<Str(TxtC), EmptyStr>>))),
      In("claim", Rec3("company", Str(TxtA), "brand", Str(<<"W", TM>>),
                       "claim", Str(TxtC))),
      In("claim", Rec2("company", Str(TxtB), "scope", Str(TxtD))),
      In("url", Rec3("url", Str(UrlA), "company", Str(TxtA),
                     "brand", Str(TxtW))),
      In("url", Rec2("url", Str(UrlA), "company", Str(TxtB))),
      In("subcategory", Rec2("category", Str(TxtC), "subcategory", Str(TxtD))),
      In("subcategory", Rec1("category", Str(TxtC))),
      In("subcategory", Rec3("category", Str(TxtC), "subcategory", Str(TxtD),
                             "parent_category", Str(TxtX))),
      In("rating", Rec2("company", Str(TxtB), "min_score", Num(0))),
      In("company", Rec2("company", Str(TxtA), "website_url", Str(TxtA))),
      In("company", Rec2("company", Str(TxtA), "url_note", Str(TxtA))),
      In("company", Rec2("company", Str(TxtA), "url", Str(<<SP>>))),
      In("brand", Rec2("company", Str(<<SP, "B", NBSP>>),
                       "brand", Str(<<"W", SP, NBSP, RSQUO>>))),
      In("scraper", Rec1("last_scraped", Str(<<"1", "Z">>))) }

VARIABLES
    acc,    \* table_to_key_to_row: table -> key -> row
    last,   \* the latest add_record call: its table, record and outcome
    nadd    \* the number of add_record calls so far

addVars == <<acc, last, nadd>>

NoCall == [table |-> "", record |-> EmptyDict, ok |-> TRUE]

AddInit == acc = EmptyDict /\ last = NoCall /\ nadd = 0

\* one call add_record(table, record, acc), returning or raising
AddRecord ==
    /\ nadd < MaxAdds
    /\ \E in \in AddInputs :
          LET r == add_record(in.table, in.record, acc)
          IN /\ acc' = r.acc
             /\ last' = [table |-> in.table, record |-> in.record,
                         ok |-> r.ok]
    /\ nadd' = nadd + 1

AddIdle == AddInit

----------------------------------------------------------------------------
(* harness.py: the chain of _add calls that one add_record call starts *)

MaxDepth == 6

\* a statement of _add that raises, in the place of a call
Raises == In("", EmptyDict)

\* lines 133-135: the nested company is expanded, then read
NestedCompanyCalls(record) ==
    IF "company" \in DOMAIN record /\ IsDict(record["company"])
    THEN <<In("company", record["company"].d)>>
             \o (IF "company" \in DOMAIN record["company"].d
                 THEN <<>> ELSE <<Raises>>)
    ELSE <<>>

\* line 135
AfterNestedCompany(record) ==
    IF "company" \in DOMAIN record /\ IsDict(record["company"])
    THEN Put(record, "company", GetOr(record["company"].d, "company"))
    ELSE record

\* lines 138-141: the nested brand is expanded, then read
NestedBrandCalls(record) ==
    IF "brand" \in DOMAIN record /\ IsDict(record["brand"])
    THEN <<In("brand", record["brand"].d)>>
             \o (IF "brand" \in DOMAIN record["brand"].d
                 THEN <<>> ELSE <<Raises>>)
    ELSE <<>>

\* lines 140-141
AfterNestedBrand(record) ==
    IF "brand" \in DOMAIN record /\ IsDict(record["brand"])
    THEN Put(Put(record, "company", GetOr(record["brand"].d, "company")),
             "brand", GetOr(record["brand"].d, "brand"))
    ELSE record

\* lines 146-152: one brand record per element of brands
BrandListCalls(record) ==
    IF "brands" \in DOMAIN record
    THEN [i \in 1..Len(record["brands"].l) |->
             IF \/ "company" \notin DOMAIN record
                \/ (IsDict(record["brands"].l[i])
                       /\ "company" \in DOMAIN record["brands"].l[i].d)
             THEN Raises
             ELSE In("brand", BrandKwargs(record["company"],
                                          record["brands"].l[i]))]
    ELSE <<>>

\* line 147: record.pop('brands')
AfterBrandList(record) ==
    IF "brands" \in DOMAIN record THEN Drop(record, "brands") ELSE record

\* lines 171-179: one category record per element of categories
CategoryCalls(record) ==
    IF "categories" \in DOMAIN record
    THEN [i \in 1..Len(record["categories"].l) |->
             In("category",
                IF GetTruthy(record, "brand")
                THEN ("company" :> GetOr(record, "company"))
                         @@ ("brand" :> record["brand"])
                         @@ ("category" :> record["categories"].l[i])
                ELSE ("company" :> GetOr(record, "company"))
                         @@ ("category" :> record["categories"].l[i]))]
    ELSE <<>>

\* lines 173, 177: record.pop('categories')
AfterCategories(record) ==
    IF "categories" \in DOMAIN record THEN Drop(record, "categories")
    ELSE record

\* AutoBrandCalls for the records of every table
AutoBrandCallsAnyTable(table, record) ==
    IF "brand" \in DOMAIN record
    THEN <<In("brand", ("company" :> GetOr(record, "company"))
                           @@ ("brand" :> record["brand"]))>>
    ELSE <<>>

\* lines 186-187: automatic brand entries
AutoBrandCalls(table, record) ==
    IF "brand" \in DOMAIN record /\ table # "brand"
    THEN <<In("brand", ("company" :> GetOr(record, "company"))
                           @@ ("brand" :> record["brand"]))>>
    ELSE <<>>

\* lines 190-191: automatic company entries
AutoCompanyCalls(table, record) ==
    IF "company" \in DOMAIN record /\ table # "company"
    THEN <<In("company", ("company" :> record["company"]))>>
    ELSE <<>>

\* lines 197-218: the record fails one of the checks before it is stored
FinalizeRaises(table, record) ==
    \/ BadUrl(CleanRecord(record))
    \/ EmptyKey(table, CleanRecord(record))
    \/ UnhashableKey(table, CleanRecord(record))

\* lines 124-230: the calls _add(table, record) makes and the places where
\* it raises, in the order of its statements
Body(table, record) ==
    LET r1 == AfterNestedCompany(record)
        r2 == AfterNestedBrand(r1)
        s4 == StripTM(Ok(EmptyDict, AfterBrandList(r2)))
        r5 == SingleCategory(table, s4).record
        r7 == ScoreDefault(Ok(EmptyDict, AfterCategories(r5))).record
    IN IF EmptyIdentity(record) THEN <<Raises>>
       ELSE NestedCompanyCalls(record)
               \o NestedBrandCalls(r1)
               \o BrandListCalls(r2)
               \o (IF s4.ok THEN <<>> ELSE <<Raises>>)
               \o CategoryCalls(r5)
               \o AutoBrandCalls(table, r7)
               \o AutoCompanyCalls(table, r7)
               \o (IF FinalizeRaises(table, r7) THEN <<Raises>> ELSE <<>>)

\* the calls the body of a call makes
Children(call) ==
    {Body(call.table, call.record)[i] :
        i \in 1..Len(Body(call.table, call.record))} \ {Raises}

\* calls, and what they call down to n levels below
RECURSIVE CallsWithin(_, _)
CallsWithin(calls, n) ==
    IF n = 0 THEN calls
    ELSE CallsWithin(calls \cup UNION {Children(c) : c \in calls}, n - 1)

\* Body, tabulated for the calls that can be on a stack of MaxDepth frames
BodyOf ==
    [c \in CallsWithin(AddInputs, MaxDepth) |-> Body(c.table, c.record)]

VARIABLES
    k_body,    \* the body of _add: what it does for each call (BodyOf)
    k_in,      \* the (table, record) add_record was called with
    k_stack,   \* the frames of the _add calls in progress, innermost last
    k_status,  \* "running", or how add_record ended: "returned" or "raised"
    k_calls    \* the number of _add calls made so far

callVars == <<k_body, k_in, k_stack, k_status, k_calls>>

\* line 123: the frame of one call of _add, at its first statement
NewFrame(call) ==
    [table |-> call.table, record |-> call.record,
     body |-> k_body[call], idx |-> 1]

\* line 232: add_record calls _add(table, record)
CallsInit ==
    /\ k_body = BodyOf
    /\ k_in \in AddInputs
    /\ k_stack = <<NewFrame(k_in)>>
    /\ k_status = "running"
    /\ k_calls = 1

CallsIdle ==
    /\ k_body = EmptyDict
    /\ k_in = In("", EmptyDict)
    /\ k_stack = <<>>
    /\ k_status = "idle"
    /\ k_calls = 0

\* the innermost frame
top == k_stack[Len(k_stack)]

\* the innermost _add calls _add
CallAdd ==
    /\ k_status = "running"
    /\ top.idx <= Len(top.body)
    /\ top.body[top.idx] # Raises
    /\ Len(k_stack) < MaxDepth
    /\ k_stack' = Append(k_stack, NewFrame(top.body[top.idx]))
    /\ k_calls' = k_calls + 1
    /\ UNCHANGED <<k_body, k_in, k_status>>

\* the innermost _add raises; no frame catches, so add_record raises
RaiseAdd ==
    /\ k_status = "running"
    /\ top.idx <= Len(top.body)
    /\ top.body[top.idx] = Raises
    /\ k_stack' = <<>>
    /\ k_status' = "raised"
    /\ UNCHANGED <<k_body, k_in, k_calls>>

\* the innermost _add has stored its record and returns to its caller
ReturnAdd ==
    /\ k_status = "running"
    /\ top.idx > Len(top.body)
    /\ IF Len(k_stack) = 1
       THEN k_stack' = <<>> /\ k_status' = "returned"
       ELSE /\ k_stack' =
                   [SubSeq(k_stack, 1, Len(k_stack) - 1)
                       EXCEPT ![Len(k_stack) - 1].idx = @ + 1]
            /\ UNCHANGED k_status
    /\ UNCHANGED <<k_body, k_in, k_calls>>

CallsNext == CallAdd \/ RaiseAdd \/ ReturnAdd

----------------------------------------------------------------------------
(* norm.merge on its own *)

MergeFields == {"a", "b"}
MergeValues == {EmptyStr, Str(<<"x">>), Str(<<"y">>), Num(0), Num(1)}

\* every dict over MergeFields with values in MergeValues
MergeDicts ==
    UNION { [D -> MergeValues] : D \in SUBSET MergeFields }

VARIABLES
    m_src,   \* the incoming record
    m_dst,   \* the existing row, before the merge
    m_out,   \* the existing row, after the merge
    m_done   \* merge(m_src, m_dst) has run

mergeVars == <<m_src, m_dst, m_out, m_done>>

MergeInit ==
    /\ m_src \in MergeDicts
    /\ m_dst \in MergeDicts
    /\ m_out = m_dst
    /\ m_done = FALSE

MergeIdle ==
    m_src = EmptyDict /\ m_dst = EmptyDict /\ m_out = EmptyDict
        /\ m_done = FALSE

Merge ==
    /\ ~m_done
    /\ m_out' = merge(m_src, m_dst)
    /\ m_done' = TRUE
    /\ UNCHANGED <<m_src, m_dst>>

----------------------------------------------------------------------------
(* Trademark stripping on its own *)

MaxBrandLen == 3

BrandChars == {"W", REG, SM, TM}

RECURSIVE Texts(_)
Texts(n) ==
    IF n = 0 THEN {<<>>}
    ELSE Texts(n - 1)
            \cup {Append(t, ch) : t \in {u \in Texts(n - 1) : Len(u) = n - 1},
                                  ch \in BrandChars}

VARIABLES
    s_brand,  \* the brand of the record before the stripping step
    s_out,    \* the record after the stripping step
    s_done    \* the step has run

stripVars == <<s_brand, s_out, s_done>>

StripInit ==
    /\ s_brand \in Texts(MaxBrandLen)
    /\ s_out = Rec1("brand", Str(s_brand))
    /\ s_done = FALSE

StripIdle ==
    s_brand = <<>> /\ s_out = Rec1("brand", EmptyStr) /\ s_done = FALSE

Strip_TM ==
    /\ ~s_done
    /\ s_out' = StripTM(Ok(EmptyDict, Rec1("brand", Str(s_brand)))).record
    /\ s_done' = TRUE
    /\ UNCHANGED s_brand

----------------------------------------------------------------------------
(* iso_8601.py *)

DigitOf == <<"0", "1", "2", "3", "4", "5", "6", "7", "8", "9">>

\* the value of a digit token
DigitValue(ch) == (CHOOSE i \in 1..10 : DigitOf[i] = ch) - 1

\* utc_dt.strftime(ISO_8601_FMT): an instant is a count of clock ticks,
\* written as two decimal digits and the literal Z
to_iso(t) == <<DigitOf[(t \div 10) + 1], DigitOf[(t % 10) + 1], "Z">>

\* datetime.strptime(iso_dt, ISO_8601_FMT)
from_iso(text) == DigitValue(text[1]) * 10 + DigitValue(text[2])

----------------------------------------------------------------------------
(* harness.py: run_scrapers, save_records_from_scraper and the storage *)

MaxYield == 2
MaxTime == 2

\* get_scraper_ids(): the modules of the scrapers package, sorted
ScraperModules == <<"s1", "s2">>

\* a scraper id as a stored value
SidVal(id) == Str(<<id>>)

\* the (table, record) pairs a scraper's producer may yield
RunInputs ==
    { In("brand", Rec2("company", Str(TxtA), "brand", Str(<<"W", REG>>))),
      In("rating", Rec2("company", Str(TxtB), "score", Num(5))),
      In("bogus", Rec1("company", Str(TxtA))),
      In("brand", Rec3("company", Str(TxtA), "brand", Str(TxtW),
                       "url", Str(TxtB))) }

\* the arguments of one run_scrapers call; <<>> stands for None
Cfg(ids, skip, freq, to_freq, changed) ==
    [scraper_ids |-> ids, skip_scraper_ids |-> skip, default_freq |-> freq,
     scraper_to_freq |-> to_freq, scraper_to_last_changed |-> changed]

Configs ==
    { Cfg(<<>>, {}, <<>>, EmptyDict, EmptyDict),
      Cfg(<<"s2">>, {}, <<1>>, EmptyDict, EmptyDict),
      Cfg(<<>>, {"s1"}, <<1>>, EmptyDict, EmptyDict),
      Cfg(<<>>, {}, <<>>, ("s2" :> 1), ("s2" :> 2)) }

NoCfg == Cfg(<<>>, {}, <<>>, EmptyDict, EmptyDict)

VARIABLES
    db,         \* the sqlite database: table -> primary key -> row
    now,        \* datetime.utcnow(), in clock ticks
    cfg,        \* the arguments of the run_scrapers call in progress
    ids,        \* the scraper ids run_scrapers iterates over
    pos,        \* the position of the loop in ids
    failed,     \* run_scrapers' list of failed scrapers
    pc,         \* where run_scrapers is
    t2k,        \* save_records_from_scraper's table_to_key_to_row
    nyield,     \* the number of records the producer yielded so far
    yielded,    \* the records the current producer yielded, in order
    pending,    \* the tables of t2k still to be written
    dbBefore,   \* the database when the current scraper was launched
    attempted,  \* the scrapers launched by this run_scrapers call
    raisedIn,   \* the scrapers whose load, producer or save raised
    event,      \* what the latest step did
    outcome,    \* how the latest run_scrapers call ended
    named       \* the scrapers named by the exception it raised

runVars == <<db, now, cfg, ids, pos, failed, pc, t2k, nyield, yielded,
             pending, dbBefore, attempted, raisedIn, event, outcome, named>>

RunInit ==
    /\ db = EmptyDict
    /\ now = 0
    /\ cfg = NoCfg
    /\ ids = <<>>
    /\ pos = 1
    /\ failed = <<>>
    /\ pc = "idle"
    /\ t2k = EmptyDict
    /\ nyield = 0
    /\ yielded = <<>>
    /\ pending = {}
    /\ dbBefore = EmptyDict
    /\ attempted = {}
    /\ raisedIn = {}
    /\ event = "none"
    /\ outcome = "none"
    /\ named = <<>>

RunIdle == RunInit

\* the scraper the loop is at
cur == ids[pos]

\* lines 272-283: get_last_scraped; the SELECT raises when the database has
\* no scraper table, and finds no row when the scraper never stored one
LastScrapedRows(id) ==
    {db["scraper"][key] : key \in {x \in DOMAIN db["scraper"] :
                                      db["scraper"][x]["scraper_id"]
                                          = SidVal(id)}}

\* lines 286-314: "run", "skip", or "raise" when get_last_scraped raises
should_run_scraper(id) ==
    IF cfg.scraper_ids # <<>>
    THEN IF \E i \in 1..Len(cfg.scraper_ids) : cfg.scraper_ids[i] = id
         THEN "run" ELSE "skip"
    ELSE IF id \in cfg.skip_scraper_ids THEN "skip"
    ELSE LET freq == IF id \in DOMAIN cfg.scraper_to_freq
                     THEN <<cfg.scraper_to_freq[id]>>
                     ELSE cfg.default_freq
         IN IF freq = <<>> THEN "run"
            ELSE IF "scraper" \notin DOMAIN db THEN "raise"
            ELSE IF LastScrapedRows(id) = {} THEN "run"
            ELSE LET last_scraped ==
                         from_iso((CHOOSE r \in LastScrapedRows(id) : TRUE)
                                      ["last_scraped"].s)
                 IN IF /\ id \in DOMAIN cfg.scraper_to_last_changed
                       /\ cfg.scraper_to_last_changed[id] > last_scraped
                    THEN "run"
                    ELSE IF last_scraped + freq[1] < now
                         THEN "run" ELSE "skip"

\* the clock advances
Tick ==
    /\ pc = "idle"
    /\ now < MaxTime
    /\ now' = now + 1
    /\ event' = "tick"
    /\ dbBefore' = EmptyDict
    /\ UNCHANGED <<db, cfg, ids, pos, failed, pc, t2k, nyield, pending,
                   attempted, raisedIn, outcome, named,
                   yielded>>

\* lines 36-55: run_scrapers is called
StartBatch ==
    /\ pc = "idle"
    /\ \E c \in Configs :
          /\ cfg' = c
          /\ ids' = IF c.scraper_ids # <<>> THEN c.scraper_ids
                    ELSE ScraperModules
    /\ pos' = 1
    /\ failed' = <<>>
    /\ pc' = "loop"
    /\ attempted' = {}
    /\ raisedIn' = {}
    /\ event' = "start"
    /\ outcome' = "none"
    /\ named' = <<>>
    /\ dbBefore' = EmptyDict
    /\ UNCHANGED <<db, now, t2k, nyield, pending,
                   yielded>>

\* lines 56-60: the scraper is not to be run
Skip ==
    /\ pc = "loop" /\ pos <= Len(ids)
    /\ should_run_scraper(cur) = "skip"
    /\ pos' = pos + 1
    /\ event' = "skip"
    /\ dbBefore' = EmptyDict
    /\ UNCHANGED <<db, now, cfg, ids, failed, pc, t2k, nyield, pending,
                   attempted, raisedIn, outcome, named,
                   yielded>>

\* lines 56-58: should_run_scraper raises, outside the try block, and the
\* exception leaves run_scrapers
CheckRaises ==
    /\ pc = "loop" /\ pos <= Len(ids)
    /\ should_run_scraper(cur) = "raise"
    /\ pc' = "idle"
    /\ event' = "check_raised"
    /\ outcome' = "error"
    /\ named' = <<>>
    /\ dbBefore' = EmptyDict
    /\ UNCHANGED <<db, now, cfg, ids, pos, failed, t2k, nyield, pending,
                   attempted, raisedIn,
                   yielded>>

\* Launch with one accumulator shared by the routines of a batch
LaunchKeepingAccumulator ==
    /\ pc = "loop" /\ pos <= Len(ids)
    /\ should_run_scraper(cur) = "run"
    /\ pc' = "load"
    /\ attempted' = attempted \cup {cur}
    /\ dbBefore' = db
    /\ t2k' = t2k
    /\ nyield' = 0
    /\ yielded' = <<>>
    /\ pending' = {}
    /\ event' = "launch"
    /\ UNCHANGED <<db, now, cfg, ids, pos, failed, raisedIn, outcome, named>>

\* lines 62-66, 236: the scraper is launched; save_records_from_scraper will
\* start from a table_to_key_to_row of its own
Launch ==
    /\ pc = "loop" /\ pos <= Len(ids)
    /\ should_run_scraper(cur) = "run"
    /\ pc' = "load"
    /\ attempted' = attempted \cup {cur}
    /\ dbBefore' = db
    /\ t2k' = EmptyDict
    /\ nyield' = 0
    /\ yielded' = <<>>
    /\ pending' = {}
    /\ event' = "launch"
    /\ UNCHANGED <<db, now, cfg, ids, pos, failed, raisedIn, outcome, named>>

\* Except without failed.append(scraper_id)
ExceptNotNoted(what) ==
    /\ failed' = failed
    /\ raisedIn' = raisedIn \cup {cur}
    /\ pos' = pos + 1
    /\ pc' = "loop"
    /\ event' = what
    /\ nyield' = 0
    /\ yielded' = <<>>
    /\ pending' = {}
    /\ UNCHANGED <<now, cfg, ids, t2k, dbBefore, attempted, outcome, named>>

\* lines 67-69: the except clause: note the scraper and go on with the next
Except(what) ==
    /\ failed' = Append(failed, cur)
    /\ raisedIn' = raisedIn \cup {cur}
    /\ pos' = pos + 1
    /\ pc' = "loop"
    /\ event' = what
    /\ nyield' = 0
    /\ yielded' = <<>>
    /\ pending' = {}
    /\ UNCHANGED <<now, cfg, ids, t2k, dbBefore, attempted, outcome, named>>

\* lines 64-65, 236: the module is imported and the producer obtained
LoadOk ==
    /\ pc = "load"
    /\ pc' = "records"
    /\ event' = "loaded"
    /\ UNCHANGED <<db, now, cfg, ids, pos, failed, t2k, nyield, pending,
                   dbBefore, attempted, raisedIn, outcome, named,
                   yielded>>

\* line 64: load_scraper raises (the import fails)
LoadRaises ==
    /\ pc = "load"
    /\ Except("load_raised")
    /\ UNCHANGED db

\* 'campaign_' + table, for the table names the producers use
CampaignName(table) ==
    CASE table = "bogus" -> "campaign_bogus"
      [] table = "brand" -> "campaign_brand"
      [] table = "company" -> "campaign_company"
      [] table = "rating" -> "campaign_rating"
      [] OTHER -> "campaign_other"

\* lines 239-244: the table a yielded name stands for; "" when unknown
ResolveTable(table) ==
    IF table \in DOMAIN TABLE_TO_KEY_FIELDS THEN table
    ELSE IF CampaignName(table) \in DOMAIN TABLE_TO_KEY_FIELDS
         THEN CampaignName(table)
         ELSE ""

\* lines 238-245: the producer yields a record and it is expanded
YieldRecord ==
    /\ pc = "records"
    /\ nyield < MaxYield
    /\ \E in \in RunInputs :
          /\ ResolveTable(in.table) # ""
          /\ LET r == add_record(ResolveTable(in.table), in.record, t2k)
             IN /\ r.ok
                /\ t2k' = r.acc
                /\ yielded' = Append(yielded, in)
    /\ nyield' = nyield + 1
    /\ event' = "record_added"
    /\ UNCHANGED <<db, now, cfg, ids, pos, failed, pc, pending, dbBefore,
                   attempted, raisedIn, outcome, named>>

\* lines 238-245: the producer yields a record of an unknown table, or one
\* whose expansion raises; the exception leaves save_records_from_scraper
RecordRaises ==
    /\ pc = "records"
    /\ nyield < MaxYield
    /\ \E in \in RunInputs :
          IF ResolveTable(in.table) = "" THEN TRUE
          ELSE ~add_record(ResolveTable(in.table), in.record, t2k).ok
    /\ Except("record_raised")
    /\ UNCHANGED db

\* the fields of a stored row that hold the scraper id
DbKeyFields(table) ==
    IF \E i \in 1..Len(TABLE_TO_KEY_FIELDS[table]) :
           TABLE_TO_KEY_FIELDS[table][i] = "scraper_id"
    THEN TABLE_TO_KEY_FIELDS[table]
    ELSE <<"scraper_id">> \o TABLE_TO_KEY_FIELDS[table]

\* delete_records_from_scraper deleting nothing
delete_nothing(d, id) == d

\* lines 77-93: the database after delete_records_from_scraper(id)
delete_records_from_scraper(d, id) ==
    [t \in DOMAIN d |->
        IF t \notin DOMAIN TABLE_TO_KEY_FIELDS \cup OBSOLETE_TABLES
        THEN d[t]
        ELSE [pk \in {x \in DOMAIN d[t] :
                         d[t][x]["scraper_id"] # SidVal(id)} |-> d[t][pk]]]

\* ProducerRaises with the scraper's stored rows cleared on the way out
ProducerRaisesAfterDelete ==
    /\ pc = "records"
    /\ Except("producer_raised")
    /\ db' = delete_records_from_scraper(db, cur)

\* line 238: the producer itself raises while yielding
ProducerRaises ==
    /\ pc = "records"
    /\ Except("producer_raised")
    /\ UNCHANGED db

\* lines 259-267: the row as written for scraper id
TaggedRow(table, row, id) ==
    LET scraper_id_keys ==
            SCRAPER_ID_KEYS
                \cap {DbKeyFields(table)[i] : i \in 1..Len(DbKeyFields(table))}
    IN [f \in DOMAIN row \cup scraper_id_keys |->
           IF f \in scraper_id_keys THEN SidVal(id) ELSE row[f]]

\* lines 257-269: create the table if needed and upsert the rows of one table
UpsertRows(d, table, key_to_row, id) ==
    LET old == IF table \in DOMAIN d THEN d[table] ELSE EmptyDict
        pkOf(row) == [i \in 1..Len(DbKeyFields(table)) |->
                         row[DbKeyFields(table)[i]]]
        new == {TaggedRow(table, key_to_row[key], id) :
                    key \in DOMAIN key_to_row}
        newKeys == {pkOf(row) : row \in new}
    IN Put(d, table,
           [pk \in DOMAIN old \cup newKeys |->
               IF pk \in newKeys
               THEN CHOOSE row \in new : pkOf(row) = pk
               ELSE old[pk]])

\* lines 247-252: the producer is exhausted; stamp the run and clear what the
\* scraper stored before
DeleteStored ==
    /\ pc = "records"
    /\ LET r == add_record("scraper",
                           Rec1("last_scraped", Str(to_iso(now))), t2k)
       IN /\ t2k' = r.acc
          /\ pending' = DOMAIN r.acc
    /\ db' = delete_records_from_scraper(db, cur)
    /\ pc' = "upsert"
    /\ event' = "deleted"
    /\ UNCHANGED <<now, cfg, ids, pos, failed, nyield, dbBefore, attempted,
                   raisedIn, outcome, named,
                   yielded>>

\* lines 256-269: the rows of table after table are written (the order in
\* which a dict yields its keys does not change the result)
RECURSIVE UpsertAll(_, _, _, _)
UpsertAll(d, tables, a, id) ==
    IF tables = {} THEN d
    ELSE LET table == CHOOSE t \in tables : TRUE
         IN UpsertAll(UpsertRows(d, table, a[table], id),
                      tables \ {table}, a, id)

\* lines 254-269: every row of the accumulator is written
UpsertTables ==
    /\ pc = "upsert"
    /\ db' = UpsertAll(db, pending, t2k, cur)
    /\ pending' = {}
    /\ pc' = "saved"
    /\ event' = "upserted"
    /\ UNCHANGED <<now, cfg, ids, pos, failed, t2k, nyield, dbBefore,
                   attempted, raisedIn, outcome, named,
                   yielded>>

\* lines 254-257: the storage raises before the first row is written
SaveRaises ==
    /\ pc = "upsert"
    /\ Except("save_raised")
    /\ UNCHANGED db

\* line 66: save_records_from_scraper returns; on to the next scraper
Saved ==
    /\ pc = "saved"
    /\ pos' = pos + 1
    /\ pc' = "loop"
    /\ event' = "saved"
    /\ nyield' = 0
    /\ yielded' = <<>>
    /\ dbBefore' = EmptyDict
    /\ UNCHANGED <<db, now, cfg, ids, failed, t2k, pending, attempted,
                   raisedIn, outcome, named>>

\* lines 71-74: the loop is over: raise if any scraper failed, else return
FinishBatch ==
    /\ pc = "loop" /\ pos > Len(ids)
    /\ pc' = "idle"
    /\ outcome' = IF failed # <<>> THEN "raised" ELSE "returned"
    /\ named' = failed
    /\ event' = "finished"
    /\ dbBefore' = EmptyDict
    /\ UNCHANGED <<db, now, cfg, ids, pos, failed, t2k, nyield, pending,
                   attempted, raisedIn,
                   yielded>>

RunNext ==
    \/ Tick \/ StartBatch \/ Skip \/ CheckRaises \/ Launch
    \/ LoadOk \/ LoadRaises
    \/ YieldRecord \/ RecordRaises \/ ProducerRaises
    \/ DeleteStored \/ UpsertTables \/ SaveRaises \/ Saved
    \/ FinishBatch

----------------------------------------------------------------------------
(* claim.py: claim_to_judgment *)

\* A claim text is a sequence of tokens: a word (a run of word characters,
\* taken whole), a space, or a line break.
NL == "nl"

\* the code points \s matches in a claim text
CLAIM_SPACE == {SP, NL}

IsWordTok(t) == t \notin CLAIM_SPACE

\* re.I: the lower-case form of a word token
LowerTok(t) ==
    CASE t = "Though" -> "though"
      [] t = "NOT" -> "not"
      [] OTHER -> t

\* A phrase is a sequence of sets of words; consecutive words are separated
\* by \s+.  An optional (\s+public)? gives the phrase with and without it.
WithPublic(first, lst) == {<<first, lst>>, <<first, {"public"}, lst>>}

\* lines 19-22: the alternatives of MIXED_CLAIM_RE
MIXED_CLAIM_RE ==
    {<<{"but", "however", "though"}>>, <<{"basic"}, {"steps"}>>}
        \cup WithPublic({"some"}, {"information"})

\* lines 23-27: the alternatives of BAD_CLAIM_RE
BAD_CLAIM_RE ==
    {<<{"not", "unresponsive"}>>, <<{"minimal"}, {"effort"}>>}
        \cup WithPublic({"no", "minimal", "limited", "little"},
                        {"information", "evidence", "visibility"})

\* line 28: the alternative of GOOD_CLAIM_RE
GOOD_CLAIM_RE == {<<{"distinguished"}>>}

\* the first position at or after i that holds no white space
RECURSIVE SkipSpace(_, _)
SkipSpace(text, i) ==
    IF i <= Len(text) /\ text[i] \in CLAIM_SPACE
    THEN SkipSpace(text, i + 1) ELSE i

\* the position after the words of phrase from its k-th on, matched from
\* position p of text; 0 when they do not match there
RECURSIVE MatchEnd(_, _, _, _)
MatchEnd(text, p, phrase, k) ==
    IF p > Len(text) THEN 0
    ELSE IF LowerTok(text[p]) \notin phrase[k] THEN 0
    ELSE IF k = Len(phrase) THEN p + 1
    ELSE IF p + 1 <= Len(text) /\ text[p + 1] \in CLAIM_SPACE
         THEN MatchEnd(text, SkipSpace(text, p + 1), phrase, k + 1)
         ELSE 0

\* \b at the gap before position i of text
WordBoundary(text, i) ==
    (i >= 2 /\ i - 1 <= Len(text) /\ IsWordTok(text[i - 1]))
        # (i >= 1 /\ i <= Len(text) /\ IsWordTok(text[i]))

\* phrase, between two \b, starts at position p of text
PhraseAt(text, p, phrase) ==
    /\ WordBoundary(text, p)
    /\ MatchEnd(text, p, phrase, 1) # 0
    /\ WordBoundary(text, MatchEnd(text, p, phrase, 1))

\* RE.match(text) for a pattern .*\b(...)\b.* : the match starts at the start
\* of the text and a dot does not match a line break, so the leading .* stays
\* on the first line; the trailing .* may match nothing
ReMatch(re, text) ==
    \E p \in 1..Len(text) :
        /\ \A i \in 1..(p - 1) : text[i] # NL
        /\ \E phrase \in re : PhraseAt(text, p, phrase)

\* lines 32-41
claim_to_judgment(claim, default) ==
    IF ReMatch(MIXED_CLAIM_RE, claim) THEN 0
    ELSE IF ReMatch(BAD_CLAIM_RE, claim) THEN -1
    ELSE IF ReMatch(GOOD_CLAIM_RE, claim) THEN 1
    ELSE default

MaxClaimLen == 3

ClaimTokens ==
    {"but", "Though", "NOT", "some", "information", "distinguished", "ok",
     SP, NL}

RECURSIVE ClaimTexts(_)
ClaimTexts(n) ==
    IF n = 0 THEN {<<>>}
    ELSE ClaimTexts(n - 1)
            \cup {Append(t, tok) :
                    t \in {u \in ClaimTexts(n - 1) : Len(u) = n - 1},
                    tok \in ClaimTokens}

VARIABLES
    j_claim,    \* the claim text
    j_default,  \* the default judgment
    j_out,      \* what claim_to_judgment returned
    j_done      \* claim_to_judgment has run

judgeVars == <<j_claim, j_default, j_out, j_done>>

JudgeInit ==
    /\ j_claim \in ClaimTexts(MaxClaimLen)
    /\ j_default \in {-1, 1}
    /\ j_out = j_default
    /\ j_done = FALSE

JudgeIdle ==
    j_claim = <<>> /\ j_default = 1 /\ j_out = 1 /\ j_done = FALSE

Judge ==
    /\ ~j_done
    /\ j_out' = claim_to_judgment(j_claim, j_default)
    /\ j_done' = TRUE
    /\ UNCHANGED <<j_claim, j_default>>

----------------------------------------------------------------------------
(* rating.py: grade_to_judgment *)

\* ord(ch), for the characters of the model's grades
Ord(ch) ==
    CASE ch = "+" -> 43 [] ch = "-" -> 45
      [] ch = "A" -> 65 [] ch = "B" -> 66 [] ch = "C" -> 67
      [] ch = "D" -> 68 [] ch = "F" -> 70
      [] ch = "a" -> 97 [] ch = "c" -> 99 [] ch = "d" -> 100

\* ch.upper()
Upper(ch) ==
    CASE ch = "a" -> "A" [] ch = "c" -> "C" [] ch = "d" -> "D"
      [] OTHER -> ch

\* cmp(x, y) on characters
cmp(x, y) ==
    IF Ord(x) < Ord(y) THEN -1 ELSE IF Ord(x) > Ord(y) THEN 1 ELSE 0

Returned(v) == [raised |-> FALSE, value |-> v]
IndexError == [raised |-> TRUE, value |-> 0]

\* grade_to_judgment comparing the first character as it is
grade_to_judgment_as_is(grade) ==
    IF grade = <<>> THEN IndexError
    ELSE Returned(cmp("C", grade[1]))

\* lines 7-14: cmp('C', grade[0].upper()); grade[0] raises on an empty grade
grade_to_judgment(grade) ==
    IF grade = <<>> THEN IndexError
    ELSE Returned(cmp("C", Upper(grade[1])))

MaxGradeLen == 2

GradeChars == {"A", "B", "C", "D", "F", "a", "c", "d", "+", "-"}

RECURSIVE Grades(_)
Grades(n) ==
    IF n = 0 THEN {<<>>}
    ELSE Grades(n - 1)
            \cup {Append(t, ch) : t \in {u \in Grades(n - 1) : Len(u) = n - 1},
                                  ch \in GradeChars}

VARIABLES
    g_grade,  \* the grade
    g_out,    \* what grade_to_judgment did
    g_done    \* grade_to_judgment has run

gradeVars == <<g_grade, g_out, g_done>>

GradeInit ==
    /\ g_grade \in Grades(MaxGradeLen)
    /\ g_out = Returned(0)
    /\ g_done = FALSE

GradeIdle == g_grade = <<>> /\ g_out = Returned(0) /\ g_done = FALSE

Grade ==
    /\ ~g_done
    /\ g_out' = grade_to_judgment(g_grade)
    /\ g_done' = TRUE
    /\ UNCHANGED g_grade

----------------------------------------------------------------------------
(* Specifications *)

vars ==
    <<addVars, mergeVars, stripVars, runVars, judgeVars, gradeVars, callVars>>

Init ==
    AddInit /\ MergeIdle /\ StripIdle /\ RunIdle /\ JudgeIdle /\ GradeIdle
        /\ CallsIdle
Next ==
    AddRecord
        /\ UNCHANGED <<mergeVars, stripVars, runVars, judgeVars, gradeVars,
                     callVars>>
Spec == Init /\ [][Next]_vars

InitMerge ==
    MergeInit /\ AddIdle /\ StripIdle /\ RunIdle /\ JudgeIdle /\ GradeIdle
        /\ CallsIdle
NextMerge ==
    Merge /\ UNCHANGED <<addVars, stripVars, runVars, judgeVars, gradeVars,
                     callVars>>
SpecMerge == InitMerge /\ [][NextMerge]_vars

InitStrip ==
    StripInit /\ AddIdle /\ MergeIdle /\ RunIdle /\ JudgeIdle /\ GradeIdle
        /\ CallsIdle
NextStrip ==
    Strip_TM /\ UNCHANGED <<addVars, mergeVars, runVars, judgeVars, gradeVars,
                     callVars>>
SpecStrip == InitStrip /\ [][NextStrip]_vars

InitRun ==
    RunInit /\ AddIdle /\ MergeIdle /\ StripIdle /\ JudgeIdle /\ GradeIdle
        /\ CallsIdle
NextRun ==
    RunNext
        /\ UNCHANGED <<addVars, mergeVars, stripVars, judgeVars, gradeVars,
                     callVars>>
SpecRun == InitRun /\ [][NextRun]_vars

InitJudge ==
    JudgeInit /\ AddIdle /\ MergeIdle /\ StripIdle /\ RunIdle /\ GradeIdle
        /\ CallsIdle
NextJudge ==
    Judge /\ UNCHANGED <<addVars, mergeVars, stripVars, runVars, gradeVars,
                     callVars>>
SpecJudge == InitJudge /\ [][NextJudge]_vars

InitGrade ==
    GradeInit /\ AddIdle /\ MergeIdle /\ StripIdle /\ RunIdle /\ JudgeIdle
        /\ CallsIdle
NextGrade ==
    Grade /\ UNCHANGED <<addVars, mergeVars, stripVars, runVars, judgeVars,
                     callVars>>
SpecGrade == InitGrade /\ [][NextGrade]_vars

InitCalls ==
    CallsInit /\ AddIdle /\ MergeIdle /\ StripIdle /\ RunIdle /\ JudgeIdle
        /\ GradeIdle
NextCalls ==
    CallsNext
        /\ UNCHANGED <<addVars, mergeVars, stripVars, runVars, judgeVars,
                       gradeVars>>
\* _add runs on one thread that nothing suspends: a call that can take its
\* next step takes it
SpecCalls == InitCalls /\ [][NextCalls]_vars /\ WF_vars(NextCalls)

----------------------------------------------------------------------------
(* Properties *)

\* the rows of the accumulator, each with its table and key
Rows(a) ==
    UNION { { [table |-> t, key |-> key, row |-> a[t][key]] :
                key \in DOMAIN a[t] } : t \in DOMAIN a }

HasRow(a, table, key) == table \in DOMAIN a /\ key \in DOMAIN a[table]

\* C1: whenever add_record fails, the accumulator is exactly as it was before
\* the call.
C1_AllOrNothing ==
    [][(nadd' = nadd + 1 /\ ~last'.ok) => acc' = acc]_vars

\* C2: merge is first-writer-wins: a field holding a non-blank value in
\* existing and a different non-blank value in incoming keeps existing's value.
C2_FirstWriterWins ==
    m_done =>
        \A f \in DOMAIN m_src \cap DOMAIN m_dst :
            (m_dst[f] # EmptyStr /\ m_src[f] # EmptyStr /\ m_src[f] # m_dst[f])
                => m_out[f] = m_dst[f]

\* C3: a blank incoming value only fills gaps: existing keeps any value other
\* than the empty string (the number 0 included), and becomes '' only when it
\* had no value or an empty one.
C3_BlankOnlyFillsGaps ==
    m_done =>
        \A f \in DOMAIN m_src :
            m_src[f] = EmptyStr =>
                m_out[f] = (IF f \in DOMAIN m_dst /\ m_dst[f] # EmptyStr
                            THEN m_dst[f] ELSE EmptyStr)

\* C4: every row with a non-empty company has a company row keyed (company,),
\* and every row with a non-empty brand has a brand row keyed (company, brand).
C4_ReferentialCompleteness ==
    \A r \in Rows(acc) :
        /\ GetTruthy(r.row, "company")
               => HasRow(acc, "company", <<r.row["company"]>>)
        /\ GetTruthy(r.row, "brand")
               => HasRow(acc, "brand",
                         <<GetOr(r.row, "company"), r.row["brand"]>>)

\* the key fields of a row's table, scraper/campaign identifier aside
RowKeyFields(r) ==
    {KeyFields(r.table)[i] : i \in 1..Len(KeyFields(r.table))}

\* C8 (as claimed): in every accumulator row of every table each key field
\* other than scope is non-empty.
C8_KeyFieldsNonEmptyExceptScope ==
    \A r \in Rows(acc) :
        \A f \in RowKeyFields(r) \ {"scope"} :
            f \in DOMAIN r.row /\ r.row[f] # EmptyStr

\* C8 (amended): add_record fails for a record whose table has a key field
\* that is missing or empty at finalization, unless the field is scope, or is
\* brand in a table other than brand; so in every accumulator row each key
\* field is present, and non-empty unless it is scope or the brand of a table
\* other than brand.
C8_KeyFieldsNonEmptyExceptScopeAndForeignBrand ==
    \A r \in Rows(acc) :
        \A f \in RowKeyFields(r) :
            /\ f \in DOMAIN r.row
            /\ (f # "scope" /\ ~(f = "brand" /\ r.table # "brand"))
                   => r.row[f] # EmptyStr

\* a call failed on a record without its table's key field, and a row of a
\* table other than brand was stored with an empty brand
C8_Witness ==
    /\ ~last.ok
    /\ last.table = "subcategory"
    /\ "subcategory" \notin DOMAIN last.record
    /\ \E r \in Rows(acc) :
          r.table = "rating" /\ r.row["brand"] = EmptyStr

Glyphs == {TM_SYMBOLS[i] : i \in 1..Len(TM_SYMBOLS)}

HasGlyph(t) == \E i \in 1..Len(t) : t[i] \in Glyphs

\* the smallest (1-based) position of text t that holds a glyph
FirstGlyph(t) ==
    CHOOSE i \in 1..Len(t) :
        t[i] \in Glyphs /\ \A j \in 1..(i - 1) : t[j] \notin Glyphs

\* C9: a brand containing glyphs is truncated at the smallest index at which
\* any glyph occurs and tm is the glyph at that index; a brand with no glyph
\* is unchanged and gets no tm.
C9_CutAtEarliestGlyph ==
    s_done =>
        IF HasGlyph(s_brand)
        THEN s_out = Rec2("brand",
                          Str(SubSeq(s_brand, 1, FirstGlyph(s_brand) - 1)),
                          "tm", Str(<<s_brand[FirstGlyph(s_brand)]>>))
        ELSE s_out = Rec1("brand", Str(s_brand))

\* a brand whose earliest glyph is not the first of TM_SYMBOLS it contains
C9_Witness ==
    /\ s_done
    /\ s_brand = <<"W", TM, REG>>
    /\ s_out["tm"] = Str(<<TM>>)

\* the brand of a row, and the brand in its key, hold no glyph
BrandClean(r) ==
    /\ "brand" \in DOMAIN r.row
           => (IsStr(r.row["brand"]) /\ ~HasGlyph(r.row["brand"].s))
    /\ \A i \in 1..Len(KeyFields(r.table)) :
           KeyFields(r.table)[i] = "brand"
               => (IsStr(r.key[i]) /\ ~HasGlyph(r.key[i].s))

\* C10: no accumulator key and no stored row in any table has a brand value
\* containing a trademark, registered or service-mark glyph.
C10_NoGlyphInBrand ==
    /\ \A r \in Rows(acc) \cup Rows(t2k) : BrandClean(r)
    /\ \A t \in DOMAIN db : \A pk \in DOMAIN db[t] :
           "brand" \in DOMAIN db[t][pk]
               => (IsStr(db[t][pk]["brand"])
                      /\ ~HasGlyph(db[t][pk]["brand"].s))

\* brands with a glyph arrived as a scalar, in a nested mapping and in a
\* brands list, and their rows and the rows referring to them were stored
C10_Witness ==
    /\ HasRow(acc, "brand", <<Str(TxtB), Str(TxtX)>>)
    /\ HasRow(acc, "brand", <<Str(TxtB), Str(TxtW)>>)
    /\ acc["brand"][<<Str(TxtB), Str(TxtW)>>]["tm"] = Str(<<REG>>)
    /\ \E r \in Rows(acc) :
          r.table = "rating" /\ r.row["brand"] = Str(TxtX)
    /\ last.ok /\ "brands" \in DOMAIN last.record

\* the rows of a database, each with its table
StoredRows(d) ==
    UNION { { [table |-> t, row |-> d[t][pk]] : pk \in DOMAIN d[t] } :
              t \in DOMAIN d }

TaggedWith(r, id) == r.row["scraper_id"] = SidVal(id)

\* an accumulator row as it is to be found in storage after a run of id:
\* tagged with the run identifier (and as campaign where the table has one)
ExpectedStored(r, id) ==
    [table |-> r.table,
     row |-> IF r.table \in {"campaign", "claim", "rating"}
             THEN Put(Put(r.row, "scraper_id", SidVal(id)),
                      "campaign_id", SidVal(id))
             ELSE Put(r.row, "scraper_id", SidVal(id))]

\* C5: after save_records_from_scraper(records, id) completes, the persisted
\* rows tagged id are exactly the rows of this run's accumulator, one per
\* (table, key) and each tagged id, and rows tagged with any other run
\* identifier are unchanged.
C5_PerRunReplacement ==
    pc = "saved" =>
        /\ {r \in StoredRows(db) : TaggedWith(r, cur)}
               = {ExpectedStored(r, cur) : r \in Rows(t2k)}
        /\ Cardinality({r \in StoredRows(db) : TaggedWith(r, cur)})
               = Cardinality(Rows(t2k))
        /\ {r \in StoredRows(db) : ~TaggedWith(r, cur)}
               = {r \in StoredRows(dbBefore) : ~TaggedWith(r, cur)}

\* a run completed that did not re-emit a row an earlier run of the same
\* scraper had stored, next to rows of another scraper
C5_Witness ==
    /\ pc = "saved"
    /\ \E r \in StoredRows(dbBefore) :
          TaggedWith(r, cur) /\ r.table = "brand"
    /\ "brand" \notin DOMAIN t2k
    /\ "rating" \in DOMAIN t2k
    /\ \E r \in StoredRows(db) : ~TaggedWith(r, cur)

\* C6 (as claimed): when expansion of one record fails, the remaining records
\* of the same routine are still expanded and its accumulator is still
\* flushed: the routine is still producing after the failure.
C6_FailingRecordIsolatedInBatch ==
    event = "record_raised" => pc = "records"

\* C6 (amended): a failing record is isolated to its routine: when expansion
\* of one record fails, the routine is abandoned (no further record of it is
\* expanded, nothing of it is flushed, storage is as it was when the routine
\* was launched), it is noted as failed, and run_scrapers goes on with the
\* next routine.
C6_FailingRecordAbandonsRoutineOnly ==
    event = "record_raised" =>
        /\ pc = "loop"
        /\ outcome = "none"
        /\ pos > 1
        /\ failed # <<>>
        /\ failed[Len(failed)] = ids[pos - 1]
        /\ db = dbBefore

\* a record of the first of two routines failed while storage held the rows
\* of earlier runs, and the second routine is still to come
C6_Witness ==
    /\ event = "record_raised"
    /\ db # EmptyDict
    /\ pos = 2
    /\ Len(ids) = 2

\* C7: run_scrapers attempts every selected routine even when earlier ones
\* raise, signals one aggregate failure only after the last routine, raises it
\* if and only if at least one routine failed, and names exactly the routines
\* that failed.
C7_AggregateFailure ==
    outcome # "none" =>
        /\ pos > Len(ids)
        /\ outcome \in {"raised", "returned"}
        /\ (outcome = "raised") <=> (raisedIn # {})
        /\ {named[i] : i \in 1..Len(named)} = raisedIn
        /\ Len(named) = Cardinality(raisedIn)

\* one add_record call happens in this step
AddStep == nadd' = nadd + 1

\* a brand as it is to be stored: cut at its earliest glyph, then cleaned
CutAtGlyph(t) ==
    IF HasGlyph(t) THEN SubSeq(t, 1, FirstGlyph(t) - 1) ELSE t

Canon(v) == Str(clean_string(v.s))

CanonBrand(v) == Str(clean_string(CutAtGlyph(v.s)))

\* C11: expanding a record whose brand is a mapping with no company field,
\* and whose own company is a scalar C, succeeds, emits a brand row keyed
\* (C, brand name) and leaves the parent row with company = C and brand = the
\* nested brand name; when the nested mapping carries a company, that company
\* is used instead.
C11_NestedBrandInheritsCompany ==
    (/\ nadd > 0
     /\ "brand" \in DOMAIN last.record
     /\ IsDict(last.record["brand"])
     /\ \/ "company" \in DOMAIN last.record["brand"].d
        \/ ("company" \in DOMAIN last.record
               /\ IsStr(last.record["company"])))
        => LET d == last.record["brand"].d
               c == IF "company" \in DOMAIN d THEN Canon(d["company"])
                    ELSE Canon(last.record["company"])
               b == CanonBrand(d["brand"])
           IN /\ last.ok
              /\ HasRow(acc, "brand", <<c, b>>)
              /\ \E r \in Rows(acc) :
                    /\ r.table = last.table
                    /\ r.row["company"] = c
                    /\ r.row["brand"] = b

\* C12 (as claimed): every category name referenced by a stored row, as its
\* category or its parent_category, has a row in table category.
C12_ReferencedCategoriesHaveRows ==
    \A r \in Rows(acc) :
        \A f \in {"category", "parent_category"} \cap DOMAIN r.row :
            \E r2 \in Rows(acc) :
                r2.table = "category" /\ r2.row["category"] = r.row[f]

\* the rows of table category
CategoryRows(a) == IF "category" \in DOMAIN a THEN a["category"] ELSE EmptyDict

\* C12 (amended): a subcategory record with a category c and a subcategory d
\* (and possibly a parent_category) is stored as one subcategory row keyed
\* (c, d) that keeps category and parent_category as plain fields, and the
\* call emits no row of table category.
C12_SubcategoryEmitsNoCategoryRow ==
    [][(/\ AddStep
        /\ last'.table = "subcategory"
        /\ DOMAIN last'.record \subseteq
               {"category", "subcategory", "parent_category"}
        /\ GetTruthy(last'.record, "category")
        /\ GetTruthy(last'.record, "subcategory"))
           => LET r == last'.record
                  key == <<Canon(r["category"]), Canon(r["subcategory"])>>
              IN /\ last'.ok
                 /\ HasRow(acc', "subcategory", key)
                 /\ acc'["subcategory"][key]["category"] = key[1]
                 /\ "parent_category" \in DOMAIN r
                       => acc'["subcategory"][key]["parent_category"]
                              = Canon(r["parent_category"])
                 /\ CategoryRows(acc') = CategoryRows(acc)]_vars

\* a subcategory record with a parent category was stored, and the
\* accumulator has no category row at all
C12_Witness ==
    /\ last.ok
    /\ last.table = "subcategory"
    /\ "parent_category" \in DOMAIN last.record
    /\ HasRow(acc, "subcategory", <<Str(TxtC), Str(TxtD)>>)
    /\ CategoryRows(acc) = EmptyDict

\* the keys of table t
KeysOf(a, t) == IF t \in DOMAIN a THEN DOMAIN a[t] ELSE {}

\* C13: for a record expanded into an accumulator that holds no row for its
\* key, the stored row has min_score = 0 if and only if the record had a
\* score and no min_score (or itself supplied min_score = 0); otherwise
\* min_score is exactly what the record supplied, and absent when it supplied
\* none.
C13_ScoreDefault ==
    [][(AddStep /\ last'.ok)
           => LET t == last'.table
                  r == last'.record
                  new == KeysOf(acc', t) \ KeysOf(acc, t)
              IN \A k \in new :
                    Cardinality(new) = 1 =>
                        LET row == acc'[t][k]
                        IN /\ "min_score" \in DOMAIN r
                                 => /\ "min_score" \in DOMAIN row
                                    /\ row["min_score"] = r["min_score"]
                           /\ ("min_score" \notin DOMAIN r
                                  /\ "score" \in DOMAIN r)
                                 => /\ "min_score" \in DOMAIN row
                                    /\ row["min_score"] = Num(0)
                           /\ ("min_score" \notin DOMAIN r
                                  /\ "score" \notin DOMAIN r)
                                 => "min_score" \notin DOMAIN row
                           /\ ("min_score" \in DOMAIN row
                                  /\ row["min_score"] = Num(0))
                                 <=> \/ ("score" \in DOMAIN r
                                            /\ "min_score" \notin DOMAIN r)
                                     \/ ("min_score" \in DOMAIN r
                                            /\ r["min_score"] = Num(0))]_vars

\* the first record had a score and no min_score and its row got min_score 0;
\* the second supplied its own min_score, under another key, and kept it
C13_Witness ==
    /\ nadd = 2
    /\ last.ok
    /\ last.table = "rating"
    /\ "min_score" \in DOMAIN last.record
    /\ last.record["min_score"] = Num(2)
    /\ \E r \in Rows(acc) :
          /\ r.table = "rating"
          /\ r.row["company"] = Str(TxtB)
          /\ r.row["score"] = Num(5)
          /\ r.row["min_score"] = Num(0)
    /\ \E r \in Rows(acc) :
          /\ r.table = "rating"
          /\ r.row["company"] = Str(TxtA)
          /\ r.row["min_score"] = Num(2)

\* the field names that, split on underscore, end with the token url
UrlNamed == {"url", "website_url"}

\* the value is a text that, cleaned, is non-empty and has no URI scheme
Relative(v) ==
    IsStr(v) /\ clean_string(v.s) # <<>> /\ ~HasScheme(clean_string(v.s))

\* C14: add_record fails for a record with a field whose name ends with the
\* token url and whose value is non-empty and has no URI scheme; when that
\* value is empty or has a scheme the call succeeds exactly when the other
\* rules permit (it does what it does for the record without the field); so
\* no accumulator row holds a non-empty URL field without a scheme.
C14_UrlsAbsoluteOrEmpty ==
    [][AddStep
           => LET t == last'.table
                  r == last'.record
              IN /\ (\E f \in UrlNamed \cap DOMAIN r : Relative(r[f]))
                        => (~last'.ok /\ KeysOf(acc', t) = KeysOf(acc, t))
                 /\ \A f \in UrlNamed \cap DOMAIN r :
                        (IsStr(r[f]) /\ ~Relative(r[f])
                            /\ \A i \in 1..Len(KeyFields(t)) :
                                   KeyFields(t)[i] # f)
                            => last'.ok = add_record(t, Drop(r, f), acc).ok
                 /\ \A row \in Rows(acc') :
                        \A f \in UrlNamed \cap DOMAIN row.row :
                            /\ IsStr(row.row[f])
                            /\ ~Relative(row.row[f])]_vars

\* a record with a relative website_url was refused after a record with an
\* absolute url and one with an empty url had been stored
C14_Witness ==
    /\ nadd = 2
    /\ ~last.ok
    /\ "website_url" \in DOMAIN last.record
    /\ \E r \in Rows(acc) :
          r.table = "company" /\ "url" \in DOMAIN r.row
              /\ r.row["url"] = Str(UrlA)

\* a phrase of the pattern occurs as whole words somewhere in the text
Occurs(re, text) ==
    \E p \in 1..Len(text) : \E phrase \in re :
        /\ p = 1 \/ ~IsWordTok(text[p - 1])
        /\ MatchEnd(text, p, phrase, 1) # 0
        /\ \/ MatchEnd(text, p, phrase, 1) > Len(text)
           \/ ~IsWordTok(text[MatchEnd(text, p, phrase, 1)])

\* C15: for every text, single-line or multi-line, and every default d,
\* claim_to_judgment returns MIXED (0) if a MIXED phrase occurs as a whole
\* word anywhere in the text, otherwise BAD (-1) if a BAD phrase occurs
\* anywhere, otherwise GOOD (1) if 'distinguished' occurs anywhere, otherwise
\* d.
C15_PrecedenceOverFullText ==
    j_done =>
        j_out = (IF Occurs(MIXED_CLAIM_RE, j_claim) THEN 0
                 ELSE IF Occurs(BAD_CLAIM_RE, j_claim) THEN -1
                 ELSE IF Occurs(GOOD_CLAIM_RE, j_claim) THEN 1
                 ELSE j_default)

\* C19: grade_to_judgment depends only on the first character of the grade,
\* upper-cased: 1 when it orders before 'C' (A, B), 0 when it is 'C', -1 when
\* it orders after 'C' (D, E, F), for every non-empty grade whatever follows.
C19_FirstCharacterAgainstC ==
    (g_done /\ g_grade # <<>>) =>
        /\ ~g_out.raised
        /\ g_grade[1] \in {"A", "B", "a"} => g_out.value = 1
        /\ g_grade[1] \in {"C", "c"} => g_out.value = 0
        /\ g_grade[1] \in {"D", "F", "d"} => g_out.value = -1
        /\ g_out.value = (IF Ord(Upper(g_grade[1])) < 67 THEN 1
                          ELSE IF Ord(Upper(g_grade[1])) = 67 THEN 0
                          ELSE -1)

\* a lower-case grade with a suffix was mapped
C19_Witness ==
    /\ g_done
    /\ g_grade = <<"d", "-">>
    /\ g_out = Returned(-1)

\* the categories a record asks to fan out
FanOutList(r) ==
    IF "category" \in DOMAIN r THEN <<r["category"]>> ELSE r["categories"].l

\* C16: expanding a record of a table whose name does not end in category,
\* with scalar company c, brand b (possibly absent) and a categories list L
\* (or a scalar category x, as L = [x]), emits for each x in L a category row
\* keyed (c, b, x) when b is non-empty and (c, '', x) otherwise, and the row
\* stored for the record has neither a categories nor a category field.
C16_CategoryFanOut ==
    [][(/\ AddStep
        /\ last'.ok
        /\ last'.table \notin {"category", "subcategory"}
        /\ "company" \in DOMAIN last'.record
        /\ IsStr(last'.record["company"])
        /\ {"category", "categories"} \cap DOMAIN last'.record # {})
           => LET r == last'.record
                  c == Canon(r["company"])
                  b == IF "brand" \in DOMAIN r THEN CanonBrand(r["brand"])
                       ELSE EmptyStr
              IN /\ \A i \in 1..Len(FanOutList(r)) :
                        /\ HasRow(acc', "category",
                                  <<c, b, Canon(FanOutList(r)[i])>>)
                        /\ b = EmptyStr =>
                               \A k \in KeysOf(acc', "category")
                                        \ KeysOf(acc, "category") :
                                   k[2] = EmptyStr
                 /\ \A row \in Rows(acc') :
                        row.table = last'.table
                            => {"category", "categories"}
                                   \cap DOMAIN row.row = {}]_vars

\* a brand record fanned its two categories out under its brand after a
\* company record had fanned its category out at company level
C16_Witness ==
    /\ nadd = 2
    /\ last.ok
    /\ last.table = "brand"
    /\ "categories" \in DOMAIN last.record
    /\ HasRow(acc, "category", <<Str(TxtA), Str(TxtW), Str(TxtC)>>)
    /\ HasRow(acc, "category", <<Str(TxtA), Str(TxtW), Str(TxtD)>>)
    /\ HasRow(acc, "category", <<Str(TxtA), EmptyStr, Str(TxtC)>>)

\* a text as clean_string leaves it: single spaces only, none at either end,
\* no smart apostrophe
IsClean(t) ==
    /\ \A i \in 1..Len(t) : t[i] \notin {NBSP, RSQUO}
    /\ t # <<>> => (t[1] # SP /\ t[Len(t)] # SP)
    /\ \A i \in 1..(Len(t) - 1) : ~(t[i] = SP /\ t[i + 1] = SP)
    /\ clean_string(t) = t

\* C17: after any sequence of add_record calls, every string value in every
\* accumulator row and every string component of every accumulator key is a
\* fixed point of clean_string, so a record whose key fields differ from an
\* existing row's only in raw formatting is merged into that row.
C17_StringsCleaned ==
    [][AddStep
           => /\ \A r \in Rows(acc') :
                    /\ \A f \in DOMAIN r.row :
                           IsStr(r.row[f]) => IsClean(r.row[f].s)
                    /\ \A i \in 1..Len(r.key) :
                           IsStr(r.key[i]) => IsClean(r.key[i].s)
              /\ (/\ last'.ok
                  /\ last'.table = "company"
                  /\ IsStr(last'.record["company"])
                  /\ <<Canon(last'.record["company"])>>
                         \in KeysOf(acc, "company"))
                     => KeysOf(acc', "company") = KeysOf(acc, "company")
              /\ (/\ last'.ok
                  /\ last'.table = "brand"
                  /\ DOMAIN last'.record = {"company", "brand"}
                  /\ IsStr(last'.record["company"])
                  /\ IsStr(last'.record["brand"])
                  /\ <<Canon(last'.record["company"]),
                       CanonBrand(last'.record["brand"])>>
                         \in KeysOf(acc, "brand"))
                     => KeysOf(acc', "brand") = KeysOf(acc, "brand")]_vars

\* a company written with raw white space was merged into the row an earlier
\* record had made for it, and a brand with a white-space run and a smart
\* apostrophe was stored clean
C17_Witness ==
    /\ nadd = 2
    /\ last.ok
    /\ last.table = "brand"
    /\ last.record["company"] = Str(<<SP, "B", NBSP>>)
    /\ KeysOf(acc, "company") = {<<Str(TxtB)>>}
    /\ HasRow(acc, "category", <<Str(TxtB), EmptyStr, Str(TxtD)>>)
    /\ HasRow(acc, "brand", <<Str(TxtB), Str(<<"W", SP, APOS>>)>>)

\* C18: expanding a brand record that has only a scalar company c and a
\* scalar brand b (both non-empty, no glyph) into an empty accumulator
\* produces exactly two rows: a company row keyed (c,) and a brand row keyed
\* (c, b).
C18_BrandRoundTrip ==
    (/\ nadd = 1
     /\ last.table = "brand"
     /\ DOMAIN last.record = {"company", "brand"}
     /\ IsStr(last.record["company"]) /\ IsStr(last.record["brand"])
     /\ Truthy(Canon(last.record["company"]))
     /\ Truthy(Canon(last.record["brand"]))
     /\ ~HasGlyph(last.record["brand"].s))
        => LET c == Canon(last.record["company"])
               b == Canon(last.record["brand"])
           IN /\ last.ok
              /\ DOMAIN acc = {"company", "brand"}
              /\ DOMAIN acc["company"] = {<<c>>}
              /\ DOMAIN acc["brand"] = {<<c, b>>}
              /\ acc["company"][<<c>>] = Rec1("company", c)
              /\ acc["brand"][<<c, b>>] = Rec2("company", c, "brand", b)
              /\ Cardinality(Rows(acc)) = 2

\* the record {company: A, brand: W} was expanded into the empty accumulator
C18_Witness ==
    /\ nadd = 1
    /\ last.ok
    /\ last.table = "brand"
    /\ last.record = Rec2("company", Str(TxtA), "brand", Str(TxtW))
    /\ HasRow(acc, "brand", <<Str(TxtA), Str(TxtW)>>)

\* C20: add_record terminates for every finite input record: every chain of
\* recursive expansions started by one call is finite, so the call returns or
\* raises.
C20_AddRecordTerminates ==
    <>(k_status \in {"returned", "raised"})

\* a brand record returned after its category fan-out, whose category
\* records had brand and company records created for them in turn
C20_Witness ==
    /\ k_status = "returned"
    /\ k_in.table = "brand"
    /\ "categories" \in DOMAIN k_in.record
    /\ k_calls = 10

\* lines 236-245: the accumulator save_records_from_scraper builds from the
\* records a producer yielded, starting from {}
RECURSIVE Expanded(_)
Expanded(records) ==
    IF records = <<>> THEN EmptyDict
    ELSE LET in == records[Len(records)]
         IN add_record(ResolveTable(in.table), in.record,
                       Expanded(SubSeq(records, 1, Len(records) - 1))).acc

\* lines 247-250: the accumulator with the run's bookkeeping row added
Stamped(a) ==
    add_record("scraper", Rec1("last_scraped", Str(to_iso(now))), a).acc

\* C21: one routine's accumulator is independent of every other routine's:
\* in a batch run by run_scrapers, the accumulator of a routine is what the
\* records it yielded expand to from an empty accumulator (plus its own
\* bookkeeping row once the producer is exhausted), and the rows flushed for
\* it are the rows of that accumulator, whatever earlier routines of the batch
\* produced and whether they succeeded or failed.
C21_AccumulatorIndependence ==
    /\ pc \in {"load", "records"} => t2k = Expanded(yielded)
    /\ pc \in {"upsert", "saved"} => t2k = Stamped(Expanded(yielded))
    /\ pc = "saved" =>
           {r \in StoredRows(db) : TaggedWith(r, cur)}
               = {ExpectedStored(r, cur) :
                      r \in Rows(Stamped(Expanded(yielded)))}

\* the second routine of a batch was flushed after yielding a rating only,
\* the first routine having failed with a company row already expanded, while
\* storage holds brand rows of an earlier successful run of the first
C21_Witness ==
    /\ pc = "saved"
    /\ pos = 2
    /\ failed = <<ids[1]>>
    /\ yielded = <<In("rating", Rec2("company", Str(TxtB), "score", Num(5)))>>
    /\ \E r \in StoredRows(db) : TaggedWith(r, ids[1]) /\ r.table = "brand"

\* the scraper the latest scheduling decision of run_scrapers was about
Decided == IF event = "skip" THEN ids[pos - 1] ELSE ids[pos]

\* line 299: the frequency configured for a scraper; <<>> when there is none
FreqOf(id) ==
    IF id \in DOMAIN cfg.scraper_to_freq THEN <<cfg.scraper_to_freq[id]>>
    ELSE cfg.default_freq

\* the last_scraped stamps storage holds for a scraper; none when no run has
\* stored anything yet
Recorded(id) ==
    IF "scraper" \in DOMAIN db
    THEN {from_iso(r["last_scraped"].s) : r \in LastScrapedRows(id)}
    ELSE {}

\* C22: minimum re-run interval: with no whitelist given, for a scraper not
\* on the skip list: if a frequency freq is configured for it and its last
\* successful run stamped last_scraped = t, run_scrapers skips it when
\* now <= t + freq unless its last_changed time is later than t, and runs it
\* when now > t + freq; if it has no recorded last_scraped or no configured
\* frequency, run_scrapers runs it.
C22_MinimumRerunInterval ==
    (/\ event \in {"skip", "launch", "check_raised"}
     /\ cfg.scraper_ids = <<>>
     /\ Decided \notin cfg.skip_scraper_ids) =>
        IF FreqOf(Decided) = <<>> \/ Recorded(Decided) = {}
        THEN event = "launch"
        ELSE \A t \in Recorded(Decided) :
                IF now > t + FreqOf(Decided)[1] THEN event = "launch"
                ELSE IF /\ Decided \in DOMAIN cfg.scraper_to_last_changed
                        /\ cfg.scraper_to_last_changed[Decided] > t
                     THEN event = "launch"
                     ELSE event = "skip"

\* C23: a routine that fails before its flush changes nothing in storage: if
\* the producer raises while yielding, or expansion of one of its records
\* fails, save_records_from_scraper performs no delete and no upsert, so
\* every persisted row, the rows and the last_scraped stamp of an earlier
\* successful run of the same scraper included, is as it was when the
\* routine was launched.
C23_FailureBeforeFlushChangesNothing ==
    event \in {"producer_raised", "record_raised"} =>
        /\ db = dbBefore
        /\ \A r \in StoredRows(dbBefore) :
               TaggedWith(r, ids[pos - 1]) => r \in StoredRows(db)

\* the producer raised after one of its records was expanded, while storage
\* holds a brand row and the stamp of an earlier run of the same scraper
C23_Witness ==
    /\ event = "producer_raised"
    /\ t2k # EmptyDict
    /\ \E r \in StoredRows(db) :
          TaggedWith(r, ids[pos - 1]) /\ r.table = "brand"
    /\ \E r \in StoredRows(db) :
          /\ TaggedWith(r, ids[pos - 1]) /\ r.table = "scraper"
          /\ from_iso(r.row["last_scraped"].s) < now

\* the key add_record stores a record of scalars under: its key fields cleaned
\* (the brand cut at its glyph first), a missing brand or scope being ''
RecordKey(table, record) ==
    [i \in 1..Len(KeyFields(table)) |->
        LET f == KeyFields(table)[i]
        IN IF f \notin DOMAIN record THEN EmptyStr
           ELSE IF f = "brand" THEN CanonBrand(record[f])
           ELSE Canon(record[f])]

\* C24: an explicitly supplied min_score is never replaced by the default:
\* if the accumulator row for a key holds a min_score m other than 0, then
\* adding a record for the same key that has a score but no min_score leaves
\* that row's min_score equal to m.
C24_ExplicitMinScoreKept ==
    [][(/\ AddStep /\ last'.ok
        /\ "score" \in DOMAIN last'.record
        /\ "min_score" \notin DOMAIN last'.record
        /\ \A f \in DOMAIN last'.record : ~IsDict(last'.record[f])
        /\ \A i \in 1..Len(KeyFields(last'.table)) :
               KeyFields(last'.table)[i] \in DOMAIN last'.record
                   => IsStr(last'.record[KeyFields(last'.table)[i]]))
           => LET t == last'.table
                  K == RecordKey(t, last'.record)
              IN (/\ HasRow(acc, t, K)
                  /\ "min_score" \in DOMAIN acc[t][K]
                  /\ acc[t][K]["min_score"].k = "num"
                  /\ acc[t][K]["min_score"] # Num(0))
                     => /\ HasRow(acc', t, K)
                        /\ acc'[t][K]["min_score"]
                               = acc[t][K]["min_score"]]_vars

====
